---------------------------- MODULE Spec2Model ----------------------------
(***************************************************************************)
(* Model of the tongue-region detection pipeline and of the ordered        *)
(* selection state machine of tongue-drum-chum (src/unnamed/part_000, the  *)
(* application class, and src/unnamed/part_004, the OpenCV detector).      *)
(*                                                                         *)
(* The state machines of the module:                                       *)
(*   Spec        the selection sequencer: detection runs that create the   *)
(*               overlays, selectTongue, deselectTongue and                *)
(*               clearTongueSelection;                                     *)
(*   SpecPage    the same fields driven from the page: photo uploads,      *)
(*               detection runs, clicks on overlays and the clear button;  *)
(*   SpecListen  startListening and stopListening with their awaits;       *)
(*   SpecDetect  the detection entry points applied to bounded inputs:     *)
(*               filterTongueShapes (classifier + resolver) and            *)
(*               detectDrumTongues (backend results, conversion, fallback);*)
(*   SpecStages  the pixel stages (grayscale, blur, Sobel, findContours,   *)
(*               filterTongueShapes) applied to small images and to edge   *)
(*               maps;                                                     *)
(*   SpecScenario the same stages applied to a 100x100 image with one      *)
(*               bright 20x10 rectangle.                                   *)
(*                                                                         *)
(* Numbers.  JavaScript numbers are IEEE-754 doubles.  Coordinates, sizes  *)
(* and areas are integers in the model, as they are in the code.  Ratios   *)
(* are compared by cross-multiplication, with the division by zero of the  *)
(* code (Infinity, NaN) spelled out.  A confidence c is held as the        *)
(* integer 100*c, whose last digit records a one-ulp deviation of the      *)
(* double from the decimal (61 is 0.6000000000000001, 89 is                *)
(* 0.8999999999999999), so that the order of the integers is the order of  *)
(* the doubles.                                                            *)
(***************************************************************************)
EXTENDS Integers, Sequences, FiniteSets

VARIABLES
    detectedTongues,    \* this.detectedTongues: the candidates of the last successful run
    selectedTongues,    \* this.selectedTongues: tongue indices (0-based) in selection order
    detectionOverlays,  \* this.detectionOverlays: one overlay per candidate
    staleOverlays,      \* overlays still on the page that detectionOverlays lost
    lastOp,             \* history: the operation that produced this state
    prevSelected,       \* history: selectedTongues before that operation
    prevOverlays,       \* history: detectionOverlays before that operation
    phase,              \* position of the detection call: "idle" | "input" | "done",
                        \* and in the pixel stages "pixels" | "gray" | "blurred" |
                        \* "edges" | "scan" | "trace" | "contours" | "failed"
    path,               \* "none" | "pipeline" | "backend" | "stages": what is exercised
    contours,           \* output of findContours, input of filterTongueShapes
    imageWidth,         \* input: image width
    imageHeight,        \* input: image height
    expectedCount,      \* input: the expected-count hint
    classified,         \* filterTongueShapes: the tongues accepted by the classifier
    finalTongues,       \* output of filterTongueShapes
    backend,            \* what the detection backend does: [outcome, results]
    tongueShapes,       \* output of detectDrumTongues
    image,              \* pixel stages: the RGBA input [width, height, length, bright]
    lum,                \* the map handed from stage to stage: grayData, blurred, edges
    visited,            \* findContours: the visited flags when it returns
    dropped,            \* history: the contours findContours did not keep
    traces,             \* history: per traceContour call [pushes, points, finished]
    raised,             \* "none", or the exception that ended the stages
    isListening,        \* this.isListening
    audioManager,       \* this.audioManager: 0 for null, else the manager's number
    managers,           \* the AudioManagers created so far, each by its state:
                        \* "created" | "listening" | "failed" | "stopped"
    calls,              \* the startListening calls that passed the guard, each
                        \* by its position: "essentia" | "start" | "done" | "failed"
    lastCall            \* history: what the last call or resumption did

selVars == <<detectedTongues, selectedTongues, detectionOverlays,
             staleOverlays, lastOp, prevSelected, prevOverlays>>
detVars == <<phase, path, contours, imageWidth, imageHeight, expectedCount,
             classified, finalTongues, backend, tongueShapes>>
pixVars == <<image, lum, visited, dropped, traces, raised>>
audVars == <<isListening, audioManager, managers, calls, lastCall>>
vars == <<detectedTongues, selectedTongues, detectionOverlays,
          staleOverlays, lastOp, prevSelected, prevOverlays,
          phase, path, contours, imageWidth, imageHeight, expectedCount,
          classified, finalTongues, backend, tongueShapes,
          image, lum, visited, dropped, traces, raised,
          isListening, audioManager, managers, calls, lastCall>>

(***************************************************************************)
(* Bounds of the model.                                                    *)
(***************************************************************************)
MaxTongues == 4

TongueIndices == 0 .. (MaxTongues - 1)

(***************************************************************************)
(* JavaScript array helpers (0-based indices over 1-based sequences).      *)
(***************************************************************************)
Min(a, b) == IF a <= b THEN a ELSE b

Max(a, b) == IF a >= b THEN a ELSE b

\* Array.prototype.includes
Includes(arr, v) == \E k \in 1 .. Len(arr) : arr[k] = v

\* Array.prototype.indexOf: the first 0-based position of v, or -1
IndexOf(arr, v) ==
    IF Includes(arr, v)
    THEN (CHOOSE k \in 1 .. Len(arr) :
              arr[k] = v /\ \A j \in 1 .. (k - 1) : arr[j] # v) - 1
    ELSE -1

\* arr.splice(start, 1): remove the element at 0-based position start
Splice1(arr, start) ==
    [k \in 1 .. (Len(arr) - 1) |-> IF k <= start THEN arr[k] ELSE arr[k + 1]]

\* arr.slice(0, end) for an integer end >= 0
Slice0(arr, end) == SubSeq(arr, 1, Min(end, Len(arr)))

\* this.detectionOverlays[tongueIndex] is defined
HasOverlay(overlays, tongueIndex) ==
    tongueIndex >= 0 /\ tongueIndex < Len(overlays)

(***************************************************************************)
(* Overlays.  An overlay is [selected, number]: the 'selected' class and   *)
(* the text of its .tongue-number element (0 stands for the empty text).   *)
(***************************************************************************)
NoNumber == 0

NewOverlay == [selected |-> FALSE, number |-> NoNumber]

\* overlay.classList.add('selected'); numberElement.textContent = n
MarkSelected(overlays, tongueIndex, n) ==
    IF HasOverlay(overlays, tongueIndex)
    THEN [overlays EXCEPT ![tongueIndex + 1] = [selected |-> TRUE, number |-> n]]
    ELSE overlays

\* overlay.classList.remove('selected'); numberElement.textContent = ''
MarkUnselected(overlays, tongueIndex) ==
    IF HasOverlay(overlays, tongueIndex)
    THEN [overlays EXCEPT ![tongueIndex + 1] = NewOverlay]
    ELSE overlays

\* the forEach of deselectTongue: numberElement.textContent = newOrder + 1
RECURSIVE Renumber(_, _, _)
Renumber(overlays, selected, k) ==
    IF k > Len(selected)
    THEN overlays
    ELSE Renumber(
             IF HasOverlay(overlays, selected[k])
             THEN [overlays EXCEPT ![selected[k] + 1].number = k]
             ELSE overlays,
             selected, k + 1)

(***************************************************************************)
(* The selection operations, as functions from the fields they read to     *)
(* the fields they write.                                                  *)
(***************************************************************************)
SelState(selected, overlays) ==
    [selectedTongues |-> selected, detectionOverlays |-> overlays]

\* mutant: selectTongue without the includes() guard
selectTongueNoGuard(selected, overlays, tongueIndex) ==
    SelState(Append(selected, tongueIndex),
             MarkSelected(overlays, tongueIndex, Len(selected) + 1))

\* mutant: selectTongue that numbers the overlay with the tongue index + 1
selectTongueIndexNumber(selected, overlays, tongueIndex) ==
    IF Includes(selected, tongueIndex)
    THEN SelState(selected, overlays)
    ELSE SelState(Append(selected, tongueIndex),
                  MarkSelected(overlays, tongueIndex, tongueIndex + 1))

selectTongue(selected, overlays, tongueIndex) ==
    IF Includes(selected, tongueIndex)
    THEN SelState(selected, overlays)
    ELSE SelState(Append(selected, tongueIndex),
                  MarkSelected(overlays, tongueIndex, Len(selected) + 1))

\* mutant: deselectTongue that moves the last element into the hole
deselectTongueSwapLast(selected, overlays, tongueIndex) ==
    LET selectedIndex == IndexOf(selected, tongueIndex)
        moved == [k \in 1 .. (Len(selected) - 1) |->
                     IF k = selectedIndex + 1 THEN selected[Len(selected)]
                     ELSE selected[k]]
    IN  IF selectedIndex = -1
        THEN SelState(selected, overlays)
        ELSE SelState(moved,
                      Renumber(MarkUnselected(overlays, tongueIndex), moved, 1))

\* mutant: deselectTongue that leaves the remaining numbers as they were
deselectTongueNoRenumber(selected, overlays, tongueIndex) ==
    LET selectedIndex == IndexOf(selected, tongueIndex)
    IN  IF selectedIndex = -1
        THEN SelState(selected, overlays)
        ELSE SelState(Splice1(selected, selectedIndex),
                      MarkUnselected(overlays, tongueIndex))

deselectTongue(selected, overlays, tongueIndex) ==
    LET selectedIndex == IndexOf(selected, tongueIndex)
        spliced == Splice1(selected, selectedIndex)
    IN  IF selectedIndex = -1
        THEN SelState(selected, overlays)
        ELSE SelState(spliced,
                      Renumber(MarkUnselected(overlays, tongueIndex), spliced, 1))

\* mutant: a click handler that selects whatever the overlay shows
handleTongueSelectionSelectOnly(selected, overlays, isSelected, tongueIndex) ==
    selectTongue(selected, overlays, tongueIndex)

\* handleTongueSelection(event, tongueIndex); isSelected is whether the
\* clicked overlay (event.currentTarget) carries the 'selected' class
handleTongueSelection(selected, overlays, isSelected, tongueIndex) ==
    IF isSelected
    THEN deselectTongue(selected, overlays, tongueIndex)
    ELSE selectTongue(selected, overlays, tongueIndex)

\* mutant: clearTongueSelection that resets the list and leaves the overlays
clearTongueSelectionListOnly(selected, overlays) ==
    SelState(<<>>, overlays)

clearTongueSelection(selected, overlays) ==
    SelState(<<>>, [k \in 1 .. Len(overlays) |-> NewOverlay])

\* clearDetectionOverlays: the overlays leave the page, both fields are reset
clearDetectionOverlays(selected, overlays) ==
    SelState(<<>>, <<>>)

\* createInteractiveTongueOverlays(tongues); hasBackground is whether the
\* layoutBackground element exists
createInteractiveTongueOverlays(selected, overlays, tongues, hasBackground) ==
    LET cleared == clearDetectionOverlays(selected, overlays)
    IN  IF ~hasBackground
        THEN cleared
        ELSE SelState(cleared.selectedTongues,
                      [k \in 1 .. Len(tongues) |-> NewOverlay])

(***************************************************************************)
(* Actions of the selection state machine.                                 *)
(***************************************************************************)
Op(name, index) == [op |-> name, index |-> index]

\* state after setupInteractiveTongueDetection (a photo has been uploaded)
InitSelection ==
    /\ detectedTongues = <<>>
    /\ selectedTongues = <<>>
    /\ detectionOverlays = <<>>
    /\ staleOverlays = {}
    /\ lastOp = Op("setup", 0)
    /\ prevSelected = <<>>
    /\ prevOverlays = <<>>

IdleDetection ==
    /\ phase = "idle"
    /\ path = "none"
    /\ contours = <<>>
    /\ imageWidth = 0
    /\ imageHeight = 0
    /\ expectedCount = 0
    /\ classified = <<>>
    /\ finalTongues = <<>>
    /\ backend = [outcome |-> "none", results |-> <<>>]
    /\ tongueShapes = <<>>

\* no pixel stage is running
IdlePixels ==
    /\ image = [width |-> 0, height |-> 0, length |-> 0, bright |-> {}]
    /\ lum = <<>>
    /\ visited = <<>>
    /\ dropped = <<>>
    /\ traces = <<>>
    /\ raised = "none"

\* the listening fields as the constructor leaves them
IdleListening ==
    /\ isListening = FALSE
    /\ audioManager = 0
    /\ managers = <<>>
    /\ calls = <<>>
    /\ lastCall = "none"

Remember(name, index) ==
    /\ lastOp' = Op(name, index)
    /\ prevSelected' = selectedTongues
    /\ prevOverlays' = detectionOverlays

\* runInteractiveTongueDetection: the detection returned n candidates
\* (n = 0: none, or the call failed; the state is then left as it was)
RunInteractiveTongueDetection(n, hasBackground) ==
    LET tongues == [k \in 1 .. n |-> k]
        created == createInteractiveTongueOverlays(
                       selectedTongues, detectionOverlays, tongues, hasBackground)
    IN  /\ IF n > 0
           THEN /\ detectedTongues' = tongues
                /\ selectedTongues' = created.selectedTongues
                /\ detectionOverlays' = created.detectionOverlays
           ELSE UNCHANGED <<detectedTongues, selectedTongues, detectionOverlays>>
        /\ Remember("detect", n)
        /\ UNCHANGED staleOverlays
        /\ UNCHANGED detVars
        /\ UNCHANGED audVars
        /\ UNCHANGED pixVars

Select(tongueIndex) ==
    LET r == selectTongue(selectedTongues, detectionOverlays, tongueIndex)
    IN  /\ selectedTongues' = r.selectedTongues
        /\ detectionOverlays' = r.detectionOverlays
        /\ Remember("select", tongueIndex)
        /\ UNCHANGED <<detectedTongues, staleOverlays>>
        /\ UNCHANGED detVars
        /\ UNCHANGED audVars
        /\ UNCHANGED pixVars

Deselect(tongueIndex) ==
    LET r == deselectTongue(selectedTongues, detectionOverlays, tongueIndex)
    IN  /\ selectedTongues' = r.selectedTongues
        /\ detectionOverlays' = r.detectionOverlays
        /\ Remember("deselect", tongueIndex)
        /\ UNCHANGED <<detectedTongues, staleOverlays>>
        /\ UNCHANGED detVars
        /\ UNCHANGED audVars
        /\ UNCHANGED pixVars

Clear ==
    LET r == clearTongueSelection(selectedTongues, detectionOverlays)
    IN  /\ selectedTongues' = r.selectedTongues
        /\ detectionOverlays' = r.detectionOverlays
        /\ Remember("clear", 0)
        /\ UNCHANGED <<detectedTongues, staleOverlays>>
        /\ UNCHANGED detVars
        /\ UNCHANGED audVars
        /\ UNCHANGED pixVars

Init == InitSelection /\ IdleDetection /\ IdlePixels /\ IdleListening

(***************************************************************************)
(* The selection state machine as the page drives it: photo uploads,       *)
(* detection runs, clicks on the overlays that are on the page, and the    *)
(* clear button.                                                           *)
(***************************************************************************)
MaxPageTongues == 2

\* the overlay nodes of detectionOverlays as they stay behind on the page:
\* each keeps its click handler (bound to its index) and its class
LeftOnPage(overlays) ==
    {[index |-> k - 1, selected |-> overlays[k].selected] : k \in 1 .. Len(overlays)}

\* handleDrumPhotoUpload of a valid image, up to the timer callback of
\* setupInteractiveTongueDetection: the three fields are reset to [], the
\* overlay nodes are not removed from layoutBackground
UploadPhoto ==
    /\ detectedTongues' = <<>>
    /\ selectedTongues' = <<>>
    /\ detectionOverlays' = <<>>
    /\ staleOverlays' = staleOverlays \cup LeftOnPage(detectionOverlays)
    /\ Remember("upload", 0)
    /\ UNCHANGED detVars
    /\ UNCHANGED audVars
    /\ UNCHANGED pixVars

\* a click on the overlay of detectionOverlays at tongueIndex
ClickOverlay(tongueIndex) ==
    LET r == handleTongueSelection(selectedTongues, detectionOverlays,
                 detectionOverlays[tongueIndex + 1].selected, tongueIndex)
    IN  /\ HasOverlay(detectionOverlays, tongueIndex)
        /\ selectedTongues' = r.selectedTongues
        /\ detectionOverlays' = r.detectionOverlays
        /\ Remember("click", tongueIndex)
        /\ UNCHANGED <<detectedTongues, staleOverlays>>
        /\ UNCHANGED detVars
        /\ UNCHANGED audVars
        /\ UNCHANGED pixVars

\* a click on an overlay left on the page: its handler reads the class of
\* the clicked node and acts on the current fields
ClickStaleOverlay(overlay) ==
    LET r == handleTongueSelection(selectedTongues, detectionOverlays,
                                   overlay.selected, overlay.index)
    IN  /\ overlay \in staleOverlays
        /\ selectedTongues' = r.selectedTongues
        /\ detectionOverlays' = r.detectionOverlays
        /\ Remember("staleClick", overlay.index)
        /\ UNCHANGED <<detectedTongues, staleOverlays>>
        /\ UNCHANGED detVars
        /\ UNCHANGED audVars
        /\ UNCHANGED pixVars

NextPage ==
    \/ UploadPhoto
    \/ \E n \in 0 .. MaxPageTongues, hasBackground \in BOOLEAN :
           RunInteractiveTongueDetection(n, hasBackground)
    \/ \E tongueIndex \in 0 .. (MaxPageTongues - 1) : ClickOverlay(tongueIndex)
    \/ \E overlay \in [index : 0 .. (MaxPageTongues - 1), selected : BOOLEAN] :
           ClickStaleOverlay(overlay)
    \/ Clear

SpecPage == Init /\ [][NextPage]_vars

(***************************************************************************)
(* Listening: startListening (an async function with two awaits) and       *)
(* stopListening.  A call runs without interruption from its start, or     *)
(* from the settling of the promise it awaits, to its next await or its    *)
(* end; other calls arrive in between.                                     *)
(***************************************************************************)
MaxManagers == 4

ListenFrame ==
    /\ UNCHANGED selVars
    /\ UNCHANGED detVars
    /\ UNCHANGED pixVars

\* startListening, from the guard to await initializeEssentia()
StartListeningCall ==
    /\ ~(isListening \/ audioManager # 0)
    /\ Len(managers) < MaxManagers
    /\ managers' = Append(managers, "created")
    /\ audioManager' = Len(managers) + 1
    /\ calls' = Append(calls, [pc |-> "essentia", manager |-> 0])
    /\ lastCall' = "started"
    /\ UNCHANGED isListening
    /\ ListenFrame

\* startListening that returns at the guard
StartListeningIgnored ==
    /\ isListening \/ audioManager # 0
    /\ lastCall' = "startIgnored"
    /\ UNCHANGED <<isListening, audioManager, managers, calls>>
    /\ ListenFrame

\* call c resumes after initializeEssentia (which catches its own errors)
\* and runs to await this.audioManager.startListening(); a null
\* this.audioManager would raise a TypeError and enter the catch clause
EssentiaSettles(c) ==
    /\ c \in 1 .. Len(calls)
    /\ calls[c].pc = "essentia"
    /\ IF audioManager = 0
       THEN /\ calls' = [calls EXCEPT ![c].pc = "failed"]
            /\ lastCall' = "startFailed"
       ELSE /\ calls' = [calls EXCEPT ![c] = [pc |-> "start", manager |-> audioManager]]
            /\ lastCall' = "awaitingMicrophone"
    /\ UNCHANGED <<isListening, audioManager, managers>>
    /\ ListenFrame

\* call c resumes after the manager's startListening: it rejects when the
\* microphone or the audio graph fails (catch: audioManager = null);
\* otherwise isListening = true is followed by updateUI, showStatus and
\* updateAudioInfo inside the same try block, and updateAudioInfo raises
\* a TypeError when the page has no .audio-metrics element (infoShown is
\* FALSE), which enters the same catch clause
MicrophoneSettles(c, granted, infoShown) ==
    /\ c \in 1 .. Len(calls)
    /\ calls[c].pc = "start"
    /\ IF ~granted
       THEN /\ managers' = [managers EXCEPT ![calls[c].manager] = "failed"]
            /\ audioManager' = 0
            /\ calls' = [calls EXCEPT ![c].pc = "failed"]
            /\ lastCall' = "startFailed"
            /\ UNCHANGED isListening
       ELSE /\ managers' = [managers EXCEPT ![calls[c].manager] = "listening"]
            /\ isListening' = TRUE
            /\ IF infoShown
               THEN /\ calls' = [calls EXCEPT ![c].pc = "done"]
                    /\ lastCall' = "listening"
                    /\ UNCHANGED audioManager
               ELSE /\ audioManager' = 0
                    /\ calls' = [calls EXCEPT ![c].pc = "failed"]
                    /\ lastCall' = "startFailed"
    /\ ListenFrame

\* stopListening past its guard
StopListeningCall ==
    /\ ~(~isListening \/ audioManager = 0)
    /\ managers' = [managers EXCEPT ![audioManager] = "stopped"]
    /\ audioManager' = 0
    /\ isListening' = FALSE
    /\ lastCall' = "stopped"
    /\ UNCHANGED calls
    /\ ListenFrame

\* stopListening that returns at the guard
StopListeningIgnored ==
    /\ ~isListening \/ audioManager = 0
    /\ lastCall' = "stopIgnored"
    /\ UNCHANGED <<isListening, audioManager, managers, calls>>
    /\ ListenFrame

NextListen ==
    \/ StartListeningCall
    \/ StartListeningIgnored
    \/ \E c \in 1 .. MaxManagers : EssentiaSettles(c)
    \/ \E c \in 1 .. MaxManagers, granted \in BOOLEAN, infoShown \in BOOLEAN :
           MicrophoneSettles(c, granted, infoShown)
    \/ StopListeningCall
    \/ StopListeningIgnored

SpecListen == Init /\ [][NextListen]_vars

Next ==
    \/ \E n \in 0 .. MaxTongues, hasBackground \in BOOLEAN :
           RunInteractiveTongueDetection(n, hasBackground)
    \/ \E tongueIndex \in TongueIndices : Select(tongueIndex)
    \/ \E tongueIndex \in TongueIndices : Deselect(tongueIndex)
    \/ Clear

Spec == Init /\ [][Next]_vars


(***************************************************************************)
(* Detection: geometry.                                                    *)
(***************************************************************************)
Pt(px, py) == [x |-> px, y |-> py]

MinOf(S) == CHOOSE m \in S : \A v \in S : m <= v

MaxOf(S) == CHOOSE m \in S : \A v \in S : m >= v

\* getBoundingBox of a non-empty contour: min/max of x and y, and
\* width = maxX - minX, height = maxY - minY
getBoundingBox(contour) ==
    LET xs == {contour[k].x : k \in 1 .. Len(contour)}
        ys == {contour[k].y : k \in 1 .. Len(contour)}
    IN  [x |-> MinOf(xs), y |-> MinOf(ys),
         width |-> MaxOf(xs) - MinOf(xs), height |-> MaxOf(ys) - MinOf(ys)]

(***************************************************************************)
(* aspectRatio = bbox.width / bbox.height compared with n/d (d > 0), for   *)
(* w, h >= 0.  With h = 0 the quotient is Infinity (w > 0) or NaN (w = 0), *)
(* and every comparison with NaN is false.                                 *)
(***************************************************************************)
RatioLT(w, h, n, d) == IF h = 0 THEN FALSE ELSE w * d < n * h

RatioGT(w, h, n, d) == IF h = 0 THEN w > 0 ELSE w * d > n * h

RatioGE(w, h, n, d) == IF h = 0 THEN w > 0 ELSE w * d >= n * h

RatioLE(w, h, n, d) == IF h = 0 THEN FALSE ELSE w * d <= n * h

(***************************************************************************)
(* Addition of doubles on the confidence values that occur, in the         *)
(* encoding 100*c: the sums that IEEE-754 rounds away from the decimal     *)
(* are 0.4+0.2, 0.7+0.2 and those that start from such a value.            *)
(***************************************************************************)
FloatAdd(a, b) ==
    CASE a = 40 /\ b = 20 -> 61
      [] a = 61 /\ b = 20 -> 80
      [] a = 70 /\ b = 20 -> 89
      [] a = 89 /\ b = 20 -> 109
      [] OTHER -> a + b

\* mutant: the size boost with inclusive limits
calculateTongueConfidenceInclusive(bbox, area) ==
    LET base == 50
        withAspect == IF /\ RatioGE(bbox.width, bbox.height, 2, 1)
                         /\ RatioLE(bbox.width, bbox.height, 4, 1)
                      THEN FloatAdd(base, 30) ELSE base
        withArea == IF area >= 1000 /\ area <= 50000
                    THEN FloatAdd(withAspect, 20) ELSE withAspect
    IN  Min(100, withArea)

\* calculateTongueConfidence (part_000): 0.5, +0.3 for 2 <= aspectRatio <= 4,
\* +0.2 for 1000 < area < 50000, clamped to 1.0
calculateTongueConfidence(bbox, area) ==
    LET base == 50
        withAspect == IF /\ RatioGE(bbox.width, bbox.height, 2, 1)
                         /\ RatioLE(bbox.width, bbox.height, 4, 1)
                      THEN FloatAdd(base, 30) ELSE base
        withArea == IF area > 1000 /\ area < 50000
                    THEN FloatAdd(withAspect, 20) ELSE withAspect
    IN  Min(100, withArea)

\* mutant: the rejection test with the upper limits only
RejectedUpperOnly(bbox, imgW, imgH) ==
    LET area == bbox.width * bbox.height
    IN  \/ 4 * area > imgW * imgH
        \/ RatioGT(bbox.width, bbox.height, 8, 1)

\* mutant: the rejection test without the two aspect-ratio branches
RejectedNoAspect(bbox, imgW, imgH) ==
    LET area == bbox.width * bbox.height
    IN  \/ area <= (14 * imgW * imgH - 1) \div 100000
        \/ 4 * area > imgW * imgH
        \/ 100 * bbox.width < imgW
        \/ 100 * bbox.height < imgH

(***************************************************************************)
(* The rejection chain of filterTongueShapes (any branch rejects):         *)
(*   area < W*H*0.00014, area > W*H*0.25, aspectRatio < 0.75,              *)
(*   aspectRatio > 8.0, width < W*0.01, height < H*0.01.                   *)
(* The products with 0.00014 and 0.01 are doubles; for the image sizes of  *)
(* the model (80x60, 400x300) they compare with every integer as the       *)
(* exact products do.  For an integer area, area < 14*W*H/100000 is        *)
(* area <= (14*W*H - 1) div 100000, which stays within TLC's integers.     *)
(***************************************************************************)
Rejected(bbox, imgW, imgH) ==
    LET area == bbox.width * bbox.height
    IN  \/ area <= (14 * imgW * imgH - 1) \div 100000
        \/ 4 * area > imgW * imgH
        \/ RatioLT(bbox.width, bbox.height, 3, 4)
        \/ RatioGT(bbox.width, bbox.height, 8, 1)
        \/ 100 * bbox.width < imgW
        \/ 100 * bbox.height < imgH

\* the tongue pushed for contour i (0-based); the contour itself is named
\* by its index, aspectRatio and centerX/centerY are functions of bbox
Tongue(i, contour) ==
    LET bbox == getBoundingBox(contour)
        area == bbox.width * bbox.height
    IN  [index |-> i, bbox |-> bbox, area |-> area,
         confidence |-> calculateTongueConfidence(bbox, area)]

\* the classification loop of filterTongueShapes: the accepted tongues in
\* contour order, from contour k (1-based) on
RECURSIVE ClassifyFrom(_, _, _, _)
ClassifyFrom(cs, imgW, imgH, k) ==
    IF k > Len(cs)
    THEN <<>>
    ELSE IF Rejected(getBoundingBox(cs[k]), imgW, imgH)
         THEN ClassifyFrom(cs, imgW, imgH, k + 1)
         ELSE <<Tongue(k - 1, cs[k])>> \o ClassifyFrom(cs, imgW, imgH, k + 1)

(***************************************************************************)
(* Detection: the candidate resolver.                                      *)
(***************************************************************************)
\* insert t behind every element whose confidence is >= t's
RECURSIVE InsertByConfidence(_, _)
InsertByConfidence(sorted, t) ==
    IF sorted = <<>>
    THEN <<t>>
    ELSE IF Head(sorted).confidence >= t.confidence
         THEN <<Head(sorted)>> \o InsertByConfidence(Tail(sorted), t)
         ELSE <<t>> \o sorted

RECURSIVE SortFrom(_, _, _)
SortFrom(arr, k, acc) ==
    IF k > Len(arr) THEN acc
    ELSE SortFrom(arr, k + 1, InsertByConfidence(acc, arr[k]))

\* mutant: no sort, the candidates stay in discovery order
SortByConfidenceNone(arr) == arr

\* mutant: a descending sort that puts equal confidences in reverse order
SortByConfidenceTiesReversed(arr) ==
    SortFrom([k \in 1 .. Len(arr) |-> arr[Len(arr) + 1 - k]], 1, <<>>)

\* arr.sort((a, b) => b.confidence - a.confidence): descending, stable
SortByConfidence(arr) == SortFrom(arr, 1, <<>>)

\* calculateDetailedOverlap: the intersection area, and the percentage
\* overlapArea / min(area1, area2) as the fraction num/den
calculateDetailedOverlap(bbox1, bbox2) ==
    LET x1 == Max(bbox1.x, bbox2.x)
        y1 == Max(bbox1.y, bbox2.y)
        x2 == Min(bbox1.x + bbox1.width, bbox2.x + bbox2.width)
        y2 == Min(bbox1.y + bbox1.height, bbox2.y + bbox2.height)
    IN  IF x1 >= x2 \/ y1 >= y2
        THEN [area |-> 0, num |-> 0, den |-> 1]
        ELSE [area |-> (x2 - x1) * (y2 - y1),
              num |-> (x2 - x1) * (y2 - y1),
              den |-> Min(bbox1.width * bbox1.height, bbox2.width * bbox2.height)]

\* mutant: a 50% threshold
isOverlappingHalf(bbox1, bbox2) ==
    LET overlap == calculateDetailedOverlap(bbox1, bbox2)
    IN  2 * overlap.num > overlap.den

\* mutant: an overlap of exactly 30% counts as overlapping
isOverlappingInclusive(bbox1, bbox2) ==
    LET overlap == calculateDetailedOverlap(bbox1, bbox2)
    IN  10 * overlap.num >= 3 * overlap.den

\* isOverlapping: overlap.percentage > 0.3
isOverlapping(bbox1, bbox2) ==
    LET overlap == calculateDetailedOverlap(bbox1, bbox2)
    IN  10 * overlap.num > 3 * overlap.den

\* removeOverlappingTongues: keep a tongue unless it overlaps a kept one
RECURSIVE RemoveOverlappingFrom(_, _, _)
RemoveOverlappingFrom(tongues, k, filtered) ==
    IF k > Len(tongues)
    THEN filtered
    ELSE IF \E j \in 1 .. Len(filtered) :
                isOverlapping(tongues[k].bbox, filtered[j].bbox)
         THEN RemoveOverlappingFrom(tongues, k + 1, filtered)
         ELSE RemoveOverlappingFrom(tongues, k + 1, Append(filtered, tongues[k]))

removeOverlappingTongues(tongues) == RemoveOverlappingFrom(tongues, 1, <<>>)

\* mutant: the limit rounded up
SliceEndCeil(count) == (Max(3 * count, 2 * (count + 5)) + 1) \div 2

\* the end index of filteredTongues.slice(0, maxCandidates), where
\* maxCandidates = Math.max(expectedCount * 1.5, expectedCount + 5) and
\* slice truncates a fractional end to an integer
SliceEnd(count) == Max(3 * count, 2 * (count + 5)) \div 2

\* filterTongueShapes: classify, sort, remove overlaps, truncate; the
\* tongues the classifier accepted are kept beside the returned list
filterTongueShapes(cs, imgW, imgH, count) ==
    LET accepted == ClassifyFrom(cs, imgW, imgH, 1)
        filteredTongues == removeOverlappingTongues(SortByConfidence(accepted))
    IN  [tongueShapes |-> accepted,
         filteredTongues |-> filteredTongues,
         finalTongues |-> Slice0(filteredTongues, SliceEnd(count))]

(***************************************************************************)
(* Detection: the entry point detectDrumTongues, its backend and its       *)
(* fallback.                                                               *)
(***************************************************************************)
\* calculateTongueConfidence of the OpenCV detector (part_004), on the
\* outcomes of its tests: 1.2 < aspectRatio < 4.0; solidity > 0.8 (2),
\* > 0.6 (1) or less (0); 0.2 < circularity < 0.7; 500 < area < 70000
cvTongueConfidence(aspectOk, solidity, circularityOk, areaOk) ==
    LET c0 == 30
        c1 == IF aspectOk THEN FloatAdd(c0, 30) ELSE c0
        c2 == IF solidity = 2 THEN FloatAdd(c1, 20)
              ELSE IF solidity = 1 THEN FloatAdd(c1, 10) ELSE c1
        c3 == IF circularityOk THEN FloatAdd(c2, 20) ELSE c2
        c4 == IF areaOk THEN FloatAdd(c3, 20) ELSE c3
    IN  Min(100, c4)

\* mutant: a filter that lets every shape through
FilterByThresholdNone(arr) == arr

\* shape => shape.confidence >= confidenceThreshold (0.5)
RECURSIVE FilterByThreshold(_)
FilterByThreshold(arr) ==
    IF arr = <<>> THEN <<>>
    ELSE IF Head(arr).confidence >= 50
         THEN <<Head(arr)>> \o FilterByThreshold(Tail(arr))
         ELSE FilterByThreshold(Tail(arr))

\* convertOpenCVResultsToTongueShapes
convertOpenCVResultsToTongueShapes(openCVResults, count) ==
    LET sortedResults == Slice0(SortByConfidence(openCVResults),
                                Min(count + 5, Len(openCVResults)))
    IN  IF Len(sortedResults) > count
        THEN Slice0(FilterByThreshold(sortedResults), count)
        ELSE sortedResults

\* createFallbackTongueDetection with the loop bound expectedCount - 1
createFallbackTongueDetectionShort(imgW, imgH, count) ==
    [k \in 1 .. count - 1 |->
        [slot |-> k - 1, width |-> 40, height |-> 60, area |-> 2400,
         confidence |-> 10, isFallback |-> TRUE]]

\* createFallbackTongueDetection: count placeholders on a circle; slot i
\* stands for the position at angle (i / count) * 2 * PI
createFallbackTongueDetection(imgW, imgH, count) ==
    [k \in 1 .. count |->
        [slot |-> k - 1, width |-> 40, height |-> 60, area |-> 2400,
         confidence |-> 10, isFallback |-> TRUE]]

\* detectTongueWithOpenCV (part_004), by what happens inside the call:
\*   "notReady"  isReady is false: returns []
\*   "results"   the OpenCV pipeline completes: returns its candidates
\*   "cvError"   an OpenCV operation throws inside the try block: the
\*               catch clause of the detector logs it and returns []
\*   "throws"    the clean-up of the finally block throws (after the
\*               candidates were computed or not): the exception leaves
\*               the call
detectTongueWithOpenCV(be) ==
    CASE be.outcome = "results" -> [threw |-> FALSE, value |-> be.results]
      [] be.outcome = "throws" -> [threw |-> TRUE, value |-> <<>>]
      [] OTHER -> [threw |-> FALSE, value |-> <<>>]

\* detectDrumTongues that also falls back when the backend returns fewer
\* candidates than expected
detectDrumTonguesFallbackWhenFew(be, imgW, imgH, count) ==
    LET r == detectTongueWithOpenCV(be)
        converted == convertOpenCVResultsToTongueShapes(r.value, count)
    IN  IF be.outcome = "nodetector" THEN <<>>
        ELSE IF r.threw \/ Len(converted) < count
             THEN createFallbackTongueDetection(imgW, imgH, count)
             ELSE converted

\* detectDrumTongues: no detector -> []; the backend call throws -> the
\* fallback; otherwise the converted backend results
detectDrumTongues(be, imgW, imgH, count) ==
    LET r == detectTongueWithOpenCV(be)
    IN  IF be.outcome = "nodetector" THEN <<>>
        ELSE IF r.threw
             THEN createFallbackTongueDetection(imgW, imgH, count)
             ELSE convertOpenCVResultsToTongueShapes(r.value, count)

(***************************************************************************)
(* Inputs of the detection state machine.  The image is 80x60 pixels       *)
(* times a scale.  A contour list is a grid of pairwise disjoint regions   *)
(* of four shapes, followed by some of the special contours below, in this *)
(* order or reversed.  Every contour has more than 10 points, as the       *)
(* contours of findContours have.                                          *)
(***************************************************************************)
MaxGrid == 18

MaxSpecials == 2

MaxBackendResults == 3

Scales == {1, 5}

ExpectedCounts == {1, 11}

\* width and height of the image at scale 1
BaseSize == [width |-> 80, height |-> 60]

\* 11 points from (x0, y0) to (x0 + w, y0 + h)
Diagonal(x0, y0, w, h) ==
    [k \in 1 .. 11 |-> Pt(x0 + ((k - 1) * w) \div 10, y0 + ((k - 1) * h) \div 10)]

GridShapes == << <<11, 4>>, <<10, 4>>, <<10, 8>>, <<10, 2>> >>

\* grid contour k = 1, 2, ...: 6 columns of pitch 12, rows of pitch 9
GridContour(k, s) ==
    LET shape == GridShapes[((k - 1) % 4) + 1]
    IN  Diagonal(12 * ((k - 1) % 6) * s, 9 * ((k - 1) \div 6) * s,
                 shape[1] * s, shape[2] * s)

\* a block of 4x3 pixels at (40s, 40s): 12 points, width 3, height 2
SmallBlock(s) ==
    [k \in 1 .. 12 |-> Pt(40 * s + ((k - 1) % 4), 40 * s + ((k - 1) \div 4))]

SpecialNames ==
    {"row", "column", "huge", "thin", "tall", "overlapAbove", "overlapExact",
     "small", "large"}

SpecialContour(name, s) ==
    CASE name = "row" -> Diagonal(20 * s, 45 * s, 30 * s, 0)
      [] name = "column" -> Diagonal(75 * s, 40 * s, 0, 15 * s)
      [] name = "huge" -> Diagonal(0, 0, 79 * s, 59 * s)
      [] name = "thin" -> Diagonal(0, 56 * s, 36 * s, 3 * s)
      [] name = "tall" -> Diagonal(60 * s, 40 * s, 4 * s, 12 * s)
      [] name = "overlapAbove" -> Diagonal(2 * s, 0, 11 * s, 4 * s)
      [] name = "overlapExact" -> Diagonal(8 * s, 0, 10 * s, 4 * s)
      [] name = "small" -> SmallBlock(s)
      [] OTHER -> Diagonal(30 * s, 40 * s, 20 * s, 10 * s)

RECURSIVE SetToSeq(_)
SetToSeq(S) ==
    IF S = {} THEN <<>>
    ELSE LET m == CHOOSE v \in S : TRUE
         IN  <<m>> \o SetToSeq(S \ {m})

Reverse(arr) == [k \in 1 .. Len(arr) |-> arr[Len(arr) + 1 - k]]

ContourList(n, specials, s, reversed) ==
    LET names == SetToSeq(specials)
        list == [k \in 1 .. n |-> GridContour(k, s)]
                \o [k \in 1 .. Len(names) |-> SpecialContour(names[k], s)]
    IN  IF reversed THEN Reverse(list) ELSE list

CvConfidences ==
    {cvTongueConfidence(a, so, c, r) :
        a \in BOOLEAN, so \in 0 .. 2, c \in BOOLEAN, r \in BOOLEAN}

\* the backend's result lists: candidate k (0-based id) with its confidence
BackendResultLists ==
    UNION {{[k \in 1 .. n |-> [id |-> k - 1, confidence |-> f[k]]] :
                f \in [1 .. n -> CvConfidences]} : n \in 0 .. MaxBackendResults}

\* what the backend does; a clean-up failure comes after the candidates
\* were computed (here: none or one) or after an error that was caught
Backends ==
    {[outcome |-> "results", results |-> r] : r \in BackendResultLists}
    \cup {[outcome |-> "throws", results |-> r] :
              r \in {l \in BackendResultLists : Len(l) <= 1}}
    \cup {[outcome |-> o, results |-> <<>>] :
              o \in {"cvError", "notReady", "nodetector"}}

(***************************************************************************)
(* The detection state machine: an input, then one call.                   *)
(***************************************************************************)
InitPipelineInput ==
    \E s \in Scales, n \in 0 .. MaxGrid, reversed \in BOOLEAN,
       specials \in SUBSET SpecialNames :
        /\ Cardinality(specials) <= MaxSpecials
        /\ path = "pipeline"
        /\ contours = ContourList(n, specials, s, reversed)
        /\ imageWidth = BaseSize.width * s
        /\ imageHeight = BaseSize.height * s
        /\ backend = [outcome |-> "none", results |-> <<>>]

InitBackendInput ==
    \E s \in Scales :
        /\ path = "backend"
        /\ contours = <<>>
        /\ imageWidth = BaseSize.width * s
        /\ imageHeight = BaseSize.height * s
        /\ backend \in Backends

InitDetect ==
    /\ InitSelection
    /\ IdleListening
    /\ phase = "input"
    /\ expectedCount \in ExpectedCounts
    /\ classified = <<>>
    /\ finalTongues = <<>>
    /\ tongueShapes = <<>>
    /\ IdlePixels
    /\ (InitPipelineInput \/ InitBackendInput)

FilterTongueShapesCall ==
    LET r == filterTongueShapes(contours, imageWidth, imageHeight, expectedCount)
    IN  /\ phase = "input"
        /\ path = "pipeline"
        /\ phase' = "done"
        /\ classified' = r.tongueShapes
        /\ finalTongues' = r.finalTongues
        /\ UNCHANGED <<path, contours, imageWidth, imageHeight, expectedCount,
                       backend, tongueShapes>>
        /\ UNCHANGED selVars
        /\ UNCHANGED audVars
        /\ UNCHANGED pixVars

DetectDrumTonguesCall ==
    /\ phase = "input"
    /\ path = "backend"
    /\ phase' = "done"
    /\ tongueShapes' = detectDrumTongues(backend, imageWidth, imageHeight,
                                          expectedCount)
    /\ UNCHANGED <<path, contours, imageWidth, imageHeight, expectedCount,
                   backend, classified, finalTongues>>
    /\ UNCHANGED selVars
    /\ UNCHANGED audVars
    /\ UNCHANGED pixVars

NextDetect == FilterTongueShapesCall \/ DetectDrumTonguesCall

SpecDetect == InitDetect /\ [][NextDetect]_vars


(***************************************************************************)
(* The pixel stages (deprecated in the source, still part of the class):   *)
(* convertToGrayscale, applyGaussianBlur, applySobelEdgeDetection,         *)
(* findContours with traceContour.  A typed array of n elements is a       *)
(* function on 0 .. n-1; reading it outside that range gives undefined,    *)
(* which turns the arithmetic into NaN and a stored NaN into 0.            *)
(*                                                                         *)
(* The RGBA input is [width, height, length, bright]: a buffer of length   *)
(* bytes whose pixels are white (255, 255, 255, 255) at the pixel indices  *)
(* in bright and black (0, 0, 0, 255) elsewhere.                           *)
(***************************************************************************)
threshold == 30

\* data[i] of the RGBA buffer, for 0 <= i < image.length
Byte(img, i) ==
    IF i % 4 = 3 THEN 255
    ELSE IF (i \div 4) \in img.bright THEN 255 ELSE 0

\* Math.round(0.299 * r + 0.587 * g + 0.114 * b)
Luma(r, g, b) == (299 * r + 587 * g + 114 * b + 500) \div 1000

\* convertToGrayscale: new Uint8ClampedArray(data.length / 4), one value
\* per complete or partial pixel that has a slot in it
convertToGrayscale(img) ==
    [p \in 0 .. (img.length \div 4) - 1 |->
        Luma(Byte(img, 4 * p), Byte(img, 4 * p + 1), Byte(img, 4 * p + 2))]

\* storing n / d (n >= 0) in a Uint8ClampedArray: round half to even
RoundHalfEvenUp(n, d) == n \div d + 1

RoundHalfEven(n, d) ==
    LET q == n \div d
        r == n % d
    IN  IF 2 * r < d THEN q
        ELSE IF 2 * r > d THEN q + 1
        ELSE IF q % 2 = 0 THEN q ELSE q + 1

kernel == <<1, 2, 1, 2, 4, 2, 1, 2, 1>>

sobelX == <<-1, 0, 1, -2, 0, 2, -1, 0, 1>>

sobelY == <<-1, -2, -1, 0, 0, 0, 1, 2, 1>>

\* index of the pixel under kernel position j = 1 .. 9 around (x, y):
\* (y + ky) * width + (x + kx) with ky = (j-1) div 3 - 1, kx = (j-1) mod 3 - 1
TapIndex(width, x, y, j) ==
    (y + ((j - 1) \div 3) - 1) * width + (x + ((j - 1) % 3) - 1)

\* every pixel under the 3x3 window is an element of the array
WindowDefined(arr, width, x, y) ==
    \A j \in 1 .. 9 : TapIndex(width, x, y, j) \in DOMAIN arr

\* the sum of pixel * weight over the 3x3 window
Convolve(arr, width, x, y, weights) ==
    LET T(j) == arr[TapIndex(width, x, y, j)] * weights[j]
    IN  T(1) + T(2) + T(3) + T(4) + T(5) + T(6) + T(7) + T(8) + T(9)

\* mutant: the loops with x over the whole row
InteriorRows(i, width, height) ==
    /\ width >= 3
    /\ height >= 3
    /\ i \div width >= 1
    /\ i \div width <= height - 2

\* the loops for y = 1 .. height-2, x = 1 .. width-2 reach index i
Interior(i, width, height) ==
    /\ width >= 3
    /\ height >= 3
    /\ i % width >= 1
    /\ i % width <= width - 2
    /\ i \div width >= 1
    /\ i \div width <= height - 2

\* applyGaussianBlur that leaves the luminance as it is
applyGaussianBlurIdentity(grayData, width, height) == grayData

\* applyGaussianBlur: blurred[y * width + x] = sum / 16 in the interior,
\* 0 (the initial value of the array) elsewhere
applyGaussianBlur(grayData, width, height) ==
    [i \in DOMAIN grayData |->
        IF ~Interior(i, width, height) THEN 0
        ELSE IF ~WindowDefined(grayData, width, i % width, i \div width) THEN 0
        ELSE RoundHalfEven(
                 Convolve(grayData, width, i % width, i \div width, kernel), 16)]

\* the largest r in lo .. hi-1 with r * r <= s
RECURSIVE ISqrt(_, _, _)
ISqrt(s, lo, hi) ==
    IF hi - lo <= 1 THEN lo
    ELSE LET mid == (lo + hi) \div 2
         IN  IF mid * mid <= s THEN ISqrt(s, mid, hi) ELSE ISqrt(s, lo, mid)

\* storing Math.min(255, Math.sqrt(s)) in a Uint8ClampedArray: the square
\* root of an integer is never half way between two integers
Magnitude(s) ==
    IF s >= 64771 THEN 255
    ELSE LET r == ISqrt(s, 0, 256)
         IN  IF s > r * r + r THEN r + 1 ELSE r

\* applySobelEdgeDetection
applySobelEdgeDetection(grayData, width, height) ==
    [i \in DOMAIN grayData |->
        IF ~Interior(i, width, height) THEN 0
        ELSE IF ~WindowDefined(grayData, width, i % width, i \div width) THEN 0
        ELSE LET gx == Convolve(grayData, width, i % width, i \div width, sobelX)
                 gy == Convolve(grayData, width, i % width, i \div width, sobelY)
             IN  Magnitude(gx * gx + gy * gy)]

\* new Array(n).fill(false)
AllFalse(n) == [i \in 0 .. n - 1 |-> FALSE]

\* visited[index] is true
IsVisited(vis, index) == index \in DOMAIN vis /\ vis[index]

\* findContours: edgeData[index] > threshold && !visited[index]
StartsContour(edgeData, vis, index) ==
    /\ index \in DOMAIN edgeData
    /\ edgeData[index] > threshold
    /\ ~IsVisited(vis, index)

\* the four edge-sharing neighbours only
NeighboursFour(p) ==
    <<Pt(p.x, p.y - 1), Pt(p.x - 1, p.y), Pt(p.x + 1, p.y), Pt(p.x, p.y + 1)>>

\* the eight neighbours in the order they are pushed
Neighbours(p) ==
    <<Pt(p.x - 1, p.y - 1), Pt(p.x, p.y - 1), Pt(p.x + 1, p.y - 1),
      Pt(p.x - 1, p.y), Pt(p.x + 1, p.y),
      Pt(p.x - 1, p.y + 1), Pt(p.x, p.y + 1), Pt(p.x + 1, p.y + 1)>>

\* the test of traceContour with the visited flag left out
SkippedIgnoringVisited(p, width, height, vis, edgeData) ==
    LET index == p.y * width + p.x
    IN  \/ p.x < 0
        \/ p.x >= width
        \/ p.y < 0
        \/ p.y >= height
        \/ (index \in DOMAIN edgeData /\ edgeData[index] <= threshold)

\* the test of traceContour on the linear index instead of x and y
SkippedIndexOnly(p, width, height, vis, edgeData) ==
    LET index == p.y * width + p.x
    IN  \/ index < 0
        \/ index >= width * height
        \/ IsVisited(vis, index)
        \/ (index \in DOMAIN edgeData /\ edgeData[index] <= threshold)

\* traceContour: the popped point is skipped (continue); comparing
\* undefined with the threshold is false
Skipped(p, width, height, vis, edgeData) ==
    LET index == p.y * width + p.x
    IN  \/ p.x < 0
        \/ p.x >= width
        \/ p.y < 0
        \/ p.y >= height
        \/ IsVisited(vis, index)
        \/ (index \in DOMAIN edgeData /\ edgeData[index] <= threshold)

\* one iteration of traceContour that does not set the visited flag
TraceStepNoMark(t, edgeData, width, height) ==
    LET p == t.stack[Len(t.stack)]
        rest == SubSeq(t.stack, 1, Len(t.stack) - 1)
    IN  IF Skipped(p, width, height, t.visited, edgeData)
        THEN [t EXCEPT !.stack = rest]
        ELSE [stack |-> rest \o Neighbours(p),
              visited |-> t.visited,
              contour |-> Append(t.contour, p),
              pushes |-> t.pushes + 8]

\* traceContour: one iteration of the while loop on [stack, visited,
\* contour]; the point on top of the stack is popped.  pushes counts the
\* stack.push calls made so far (history)
TraceStep(t, edgeData, width, height) ==
    LET p == t.stack[Len(t.stack)]
        rest == SubSeq(t.stack, 1, Len(t.stack) - 1)
    IN  IF Skipped(p, width, height, t.visited, edgeData)
        THEN [t EXCEPT !.stack = rest]
        ELSE [stack |-> rest \o Neighbours(p),
              visited |-> [t.visited EXCEPT ![p.y * width + p.x] = TRUE],
              contour |-> Append(t.contour, p),
              pushes |-> t.pushes + 8]

\* the while loop of traceContour: iterations until the stack is empty, at
\* most n of them (the loop is split in halves to keep the evaluation
\* shallow)
RECURSIVE TraceLoop(_, _, _, _, _)
TraceLoop(t, edgeData, width, height, n) ==
    IF t.stack = <<>> THEN t
    ELSE IF n <= 1 THEN TraceStep(t, edgeData, width, height)
    ELSE TraceLoop(TraceLoop(t, edgeData, width, height, n \div 2),
                   edgeData, width, height, n - (n \div 2))

\* iterations the model gives one traceContour call: twice the number a
\* call needs if every iteration that is not skipped marks a new pixel
\* (8 * width * height + 1)
TraceBudget(width, height) == 2 * (8 * width * height + 1)

\* traceContour: the contour traced from (startX, startY) and the visited
\* flags it leaves; finished tells that the loop ended (the stack became
\* empty) within the budget
traceContour(edgeData, width, height, startX, startY, vis) ==
    LET t == TraceLoop([stack |-> <<Pt(startX, startY)>>, visited |-> vis,
                        contour |-> <<>>, pushes |-> 1],
                       edgeData, width, height, TraceBudget(width, height))
    IN  [contour |-> t.contour, visited |-> t.visited, pushes |-> t.pushes,
         finished |-> (t.stack = <<>>)]

\* what the history keeps of one traceContour call
TraceRecord(t) ==
    [pushes |-> t.pushes, points |-> Len(t.contour), finished |-> t.finished]

\* the loops of findContours from linear index `index` on: the scan runs
\* to the next pixel that starts a contour, traces it, keeps it if it has
\* more than 10 points, and continues behind it
RECURSIVE FindContoursFrom(_, _, _, _, _, _, _, _)
FindContoursFrom(edgeData, width, height, index, vis, kept, notKept, log) ==
    LET starts == {i \in index .. width * height - 1 :
                       StartsContour(edgeData, vis, i)}
        start == CHOOSE i \in starts : \A j \in starts : i <= j
        t == traceContour(edgeData, width, height,
                          start % width, start \div width, vis)
    IN  IF starts = {}
        THEN [contours |-> kept, dropped |-> notKept, visited |-> vis,
              traces |-> log]
        ELSE IF Len(t.contour) > 10
        THEN FindContoursFrom(edgeData, width, height, start + 1, t.visited,
                              Append(kept, t.contour), notKept,
                              Append(log, TraceRecord(t)))
        ELSE FindContoursFrom(edgeData, width, height, start + 1, t.visited,
                              kept, Append(notKept, t.contour),
                              Append(log, TraceRecord(t)))

\* findContours (width * height >= 0): the contours it returns, the ones
\* it traced and did not keep, the visited flags and the history of its
\* traceContour calls
findContours(edgeData, width, height) ==
    IF width <= 0 \/ height <= 0
    THEN [contours |-> <<>>, dropped |-> <<>>,
          visited |-> AllFalse(width * height), traces |-> <<>>]
    ELSE FindContoursFrom(edgeData, width, height, 0,
                          AllFalse(width * height), <<>>, <<>>, <<>>)


(***************************************************************************)
(* The pixel state machine: the stages one after the other.                *)
(***************************************************************************)
MaxSide == 4

MaxBright == 1

MaxOn == 2

MaxOff == 3

\* the default of the expectedCount parameter of filterTongueShapes
DefaultExpectedCount == 15

LengthDeltas == {-4, -1, 0, 4}

EdgeMapSize == [width |-> 4, height |-> 4]

ScenarioSize == [width |-> 100, height |-> 100]

RectSize == [width |-> 20, height |-> 10]

\* top-left corners of the bright rectangle: on the borders of the image,
\* three pixels away from them, and in the middle
RectOrigins == {<<x, y>> : x \in {0, 3, 40, 77, 80}, y \in {0, 3, 45, 87, 90}}

\* the state the stage actions never change
StageFrame ==
    /\ UNCHANGED selVars
    /\ UNCHANGED audVars
    /\ UNCHANGED <<path, imageWidth, imageHeight, expectedCount, backend,
                   tongueShapes, image, raised>>

InitStages ==
    /\ InitSelection
    /\ IdleListening
    /\ path = "stages"
    /\ expectedCount = DefaultExpectedCount
    /\ backend = [outcome |-> "none", results |-> <<>>]
    /\ tongueShapes = <<>>
    /\ contours = <<>>
    /\ classified = <<>>
    /\ finalTongues = <<>>
    /\ visited = <<>>
    /\ dropped = <<>>
    /\ traces = <<>>
    /\ raised = "none"

\* an RGBA buffer handed to convertToGrayscale with a width and a height
InitImage(width, height, length, bright) ==
    /\ InitStages
    /\ phase = "pixels"
    /\ imageWidth = width
    /\ imageHeight = height
    /\ image = [width |-> width, height |-> height, length |-> length,
                bright |-> bright]
    /\ lum = <<>>

\* small images, of all shapes: any side from -1 to MaxSide, a buffer that
\* is as long as width * height * 4 or not, at most MaxBright white pixels
\* or all pixels white
InitSmallImage ==
    \E width \in -1 .. MaxSide, height \in -1 .. MaxSide, d \in LengthDeltas :
        \E bright \in SUBSET (0 .. Max(width * height, 0) - 1) :
            /\ \/ Cardinality(bright) <= MaxBright
               \/ bright = 0 .. Max(width * height, 0) - 1
            /\ Max(width * height, 0) * 4 + d >= 0
            /\ InitImage(width, height, Max(width * height, 0) * 4 + d, bright)

\* an edge map handed to findContours: the pixels in on are just above the
\* threshold, the others are at the threshold
InitEdgeMap ==
    \E on \in SUBSET (0 .. EdgeMapSize.width * EdgeMapSize.height - 1) :
        /\ \/ Cardinality(on) <= MaxOn
           \/ Cardinality(on) >= EdgeMapSize.width * EdgeMapSize.height - MaxOff
        /\ InitStages
        /\ phase = "edges"
        /\ imageWidth = EdgeMapSize.width
        /\ imageHeight = EdgeMapSize.height
        /\ image = [width |-> EdgeMapSize.width, height |-> EdgeMapSize.height,
                    length |-> EdgeMapSize.width * EdgeMapSize.height * 4,
                    bright |-> {}]
        /\ lum = [i \in 0 .. EdgeMapSize.width * EdgeMapSize.height - 1 |->
                     IF i \in on THEN threshold + 1 ELSE threshold]

\* the 100x100 image with one white 20x10 rectangle on black
InitScenario ==
    \E origin \in RectOrigins :
        InitImage(ScenarioSize.width, ScenarioSize.height,
                  ScenarioSize.width * ScenarioSize.height * 4,
                  {y * ScenarioSize.width + x :
                      x \in origin[1] .. origin[1] + RectSize.width - 1,
                      y \in origin[2] .. origin[2] + RectSize.height - 1})

ConvertToGrayscaleCall ==
    /\ phase = "pixels"
    /\ phase' = "gray"
    /\ lum' = convertToGrayscale(image)
    /\ UNCHANGED <<contours, classified, finalTongues, visited, dropped, traces>>
    /\ StageFrame

ApplyGaussianBlurCall ==
    /\ phase = "gray"
    /\ phase' = "blurred"
    /\ lum' = applyGaussianBlur(lum, imageWidth, imageHeight)
    /\ UNCHANGED <<contours, classified, finalTongues, visited, dropped, traces>>
    /\ StageFrame

ApplySobelEdgeDetectionCall ==
    /\ phase = "blurred"
    /\ phase' = "edges"
    /\ lum' = applySobelEdgeDetection(lum, imageWidth, imageHeight)
    /\ UNCHANGED <<contours, classified, finalTongues, visited, dropped, traces>>
    /\ StageFrame

\* findContours; new Array(n) throws a RangeError for n < 0
FindContoursCall ==
    LET r == findContours(lum, imageWidth, imageHeight)
    IN  /\ phase = "edges"
        /\ IF imageWidth * imageHeight < 0
           THEN /\ phase' = "failed"
                /\ raised' = "RangeError"
                /\ UNCHANGED <<visited, contours, dropped, traces>>
           ELSE /\ phase' = "contours"
                /\ raised' = raised
                /\ visited' = r.visited
                /\ contours' = r.contours
                /\ dropped' = r.dropped
                /\ traces' = r.traces
        /\ UNCHANGED <<lum, classified, finalTongues>>
        /\ UNCHANGED selVars
        /\ UNCHANGED audVars
        /\ UNCHANGED <<path, imageWidth, imageHeight, expectedCount, backend,
                       tongueShapes, image>>

\* filterTongueShapes on the contours found
FilterContoursCall ==
    LET r == filterTongueShapes(contours, imageWidth, imageHeight, expectedCount)
    IN  /\ phase = "contours"
        /\ phase' = "done"
        /\ classified' = r.tongueShapes
        /\ finalTongues' = r.finalTongues
        /\ UNCHANGED <<lum, contours, visited, dropped, traces>>
        /\ StageFrame

NextStages ==
    \/ ConvertToGrayscaleCall
    \/ ApplyGaussianBlurCall
    \/ ApplySobelEdgeDetectionCall
    \/ FindContoursCall
    \/ FilterContoursCall

\* small images and edge maps
InitStageInputs == InitSmallImage \/ InitEdgeMap

SpecStages == InitStageInputs /\ [][NextStages]_vars

\* the 100x100 rectangle scenario
SpecScenario == InitScenario /\ [][NextStages]_vars


(***************************************************************************)
(* Properties of the selection state machine (checked under Spec).         *)
(***************************************************************************)
OpIndex == lastOp.index

\* the sequence s without the value v, the other elements in their order
Without(s, v) ==
    LET Keep(x) == x # v
    IN  SelectSeq(s, Keep)

\* 1-based position of v in s (v occurs in s)
PositionOf(s, v) == CHOOSE k \in 1 .. Len(s) : s[k] = v

\* C6: after any sequence of select, deselect and clear operations (and of
\* detection runs) the selection list holds no index more than once.
C6_NoDuplicateIndex ==
    \A j, k \in 1 .. Len(selectedTongues) :
        selectedTongues[j] = selectedTongues[k] => j = k

\* C6 witness: select was called on an index that was already selected,
\* with at least two indices selected.
C6_Witness ==
    /\ lastOp.op = "select"
    /\ Includes(prevSelected, OpIndex)
    /\ Len(selectedTongues) >= 2

\* C7: deselect(i) changes nothing when i is not selected; otherwise the
\* list becomes the previous list without i, the others in their previous
\* relative order; in particular from the list [a, b], deselect(a) leaves
\* [b], and b's overlay shows 1.
C7_DeselectRemovesExactly ==
    lastOp.op = "deselect" =>
        IF ~Includes(prevSelected, OpIndex)
        THEN /\ selectedTongues = prevSelected
             /\ detectionOverlays = prevOverlays
        ELSE /\ selectedTongues = Without(prevSelected, OpIndex)
             /\ ~Includes(selectedTongues, OpIndex)
             /\ (Len(prevSelected) = 2 /\ prevSelected[1] = OpIndex) =>
                    /\ selectedTongues = <<prevSelected[2]>>
                    /\ HasOverlay(detectionOverlays, prevSelected[2]) =>
                           detectionOverlays[prevSelected[2] + 1].number = 1

\* C7 witness: the list was [a, b] with overlays for both, and a was
\* deselected.
C7_Witness ==
    /\ lastOp.op = "deselect"
    /\ Len(prevSelected) = 2
    /\ prevSelected[1] = OpIndex
    /\ HasOverlay(detectionOverlays, prevSelected[1])
    /\ HasOverlay(detectionOverlays, prevSelected[2])

\* C8: every overlay of a selected candidate shows the candidate's 1-based
\* position in the selection list, and every overlay of an unselected
\* candidate shows no number.
C8_NumberIsPosition ==
    \A t \in 0 .. (Len(detectionOverlays) - 1) :
        IF Includes(selectedTongues, t)
        THEN detectionOverlays[t + 1].number = PositionOf(selectedTongues, t)
        ELSE detectionOverlays[t + 1].number = NoNumber

\* C8 witness: a deselect removed an index that was not last, so that the
\* candidates behind it, which have overlays, had to be renumbered.
C8_Witness ==
    /\ lastOp.op = "deselect"
    /\ Len(prevSelected) >= 3
    /\ prevSelected[1] = OpIndex
    /\ \A k \in 1 .. Len(prevSelected) :
           HasOverlay(detectionOverlays, prevSelected[k])

\* C9: select(i) leaves the list as it was when i is already selected;
\* otherwise the list is the previous list with i appended, and i's overlay
\* shows the new length of the list.
C9_SelectAppends ==
    lastOp.op = "select" =>
        IF Includes(prevSelected, OpIndex)
        THEN selectedTongues = prevSelected
        ELSE /\ Len(selectedTongues) = Len(prevSelected) + 1
             /\ SubSeq(selectedTongues, 1, Len(prevSelected)) = prevSelected
             /\ selectedTongues[Len(selectedTongues)] = OpIndex
             /\ HasOverlay(detectionOverlays, OpIndex) =>
                    detectionOverlays[OpIndex + 1].number = Len(selectedTongues)

\* C9 witness: an unselected index with an overlay was selected after
\* another one.
C9_Witness ==
    /\ lastOp.op = "select"
    /\ ~Includes(prevSelected, OpIndex)
    /\ Len(prevSelected) >= 1
    /\ HasOverlay(detectionOverlays, OpIndex)

\* C10: after clear() the selection list is empty and no overlay is marked
\* selected or shows a number.
C10_ClearResets ==
    lastOp.op = "clear" =>
        /\ selectedTongues = <<>>
        /\ \A k \in 1 .. Len(detectionOverlays) :
               /\ ~detectionOverlays[k].selected
               /\ detectionOverlays[k].number = NoNumber

\* C10 witness: clear() ran with two or more candidates selected and marked.
C10_Witness ==
    /\ lastOp.op = "clear"
    /\ Len(prevSelected) >= 2
    /\ \E k \in 1 .. Len(prevOverlays) : prevOverlays[k].selected
    /\ Len(detectionOverlays) = Len(prevOverlays)

\* C11: after every completed detection run, whatever its outcome (also a
\* run that returns no candidates or fails), no index that was selected
\* before the run is still selected.
C11_RunResetsSelection ==
    lastOp.op = "detect" =>
        \A k \in 1 .. Len(prevSelected) :
            ~Includes(selectedTongues, prevSelected[k])


(***************************************************************************)
(* Properties of detection (checked under SpecDetect).                     *)
(***************************************************************************)
\* twice max(expectedCount * 1.5, expectedCount + 5)
TwiceLimit == Max(3 * expectedCount, 2 * (expectedCount + 5))

\* area of the intersection of two boxes
IntersectionArea(b1, b2) ==
    LET left == Max(b1.x, b2.x)
        right == Min(b1.x + b1.width, b2.x + b2.width)
        top == Max(b1.y, b2.y)
        bottom == Min(b1.y + b1.height, b2.y + b2.height)
    IN  Max(0, right - left) * Max(0, bottom - top)

SmallerArea(b1, b2) == Min(b1.width * b1.height, b2.width * b2.height)

Descending(arr) ==
    \A k \in 1 .. (Len(arr) - 1) : arr[k].confidence >= arr[k + 1].confidence

NoPairOverlaps(arr) ==
    \A j, k \in 1 .. Len(arr) :
        j # k => 10 * IntersectionArea(arr[j].bbox, arr[k].bbox)
                     <= 3 * SmallerArea(arr[j].bbox, arr[k].bbox)

\* C1: for expectedCount >= 1 the list returned by detection has at most
\* floor(max(expectedCount * 1.5, expectedCount + 5)) elements, whether it
\* comes from filterTongueShapes or from detectDrumTongues.
C1_AtMostLimit ==
    phase = "done" =>
        /\ 2 * Len(finalTongues) <= TwiceLimit
        /\ 2 * Len(tongueShapes) <= TwiceLimit

\* C1 witness: with expectedCount = 11 (limit 16.5) more than 16 pairwise
\* non-overlapping tongues were accepted and 16 were returned.
C1_Witness ==
    /\ phase = "done"
    /\ path = "pipeline"
    /\ expectedCount = 11
    /\ Len(classified) > 16
    /\ NoPairOverlaps(classified)
    /\ Len(finalTongues) = 16

\* C2: any two distinct candidates of the resolved output overlap by at
\* most 0.30 of the smaller of their two box areas.
C2_OverlapAtMost30 ==
    phase = "done" => NoPairOverlaps(finalTongues)

\* C2 witness: a tongue was dropped for its overlap (the output is below
\* the limit and shorter than the accepted list), and two returned
\* candidates overlap by exactly 0.30.
C2_Witness ==
    /\ phase = "done"
    /\ path = "pipeline"
    /\ Len(finalTongues) < Len(classified)
    /\ 2 * (Len(finalTongues) + 1) <= TwiceLimit
    /\ \E j, k \in 1 .. Len(finalTongues) :
           /\ j # k
           /\ IntersectionArea(finalTongues[j].bbox, finalTongues[k].bbox) > 0
           /\ 10 * IntersectionArea(finalTongues[j].bbox, finalTongues[k].bbox)
                  = 3 * SmallerArea(finalTongues[j].bbox, finalTongues[k].bbox)

\* C3: the returned list is in descending order of confidence, on both
\* entry points.
C3_SortedDescending ==
    phase = "done" => Descending(finalTongues) /\ Descending(tongueShapes)

\* C3 witness: the accepted tongues were not in descending order, some of
\* them were dropped, and the output holds three different confidences.
C3_Witness ==
    /\ phase = "done"
    /\ path = "pipeline"
    /\ ~Descending(classified)
    /\ Len(finalTongues) < Len(classified)
    /\ Cardinality({finalTongues[k].confidence : k \in 1 .. Len(finalTongues)}) >= 3

\* C4: every candidate the classifier emits has a bounding box of strictly
\* positive width and height.
C4_PositiveBox ==
    /\ \A k \in 1 .. Len(classified) :
           classified[k].bbox.width > 0 /\ classified[k].bbox.height > 0
    /\ \A k \in 1 .. Len(finalTongues) :
           finalTongues[k].bbox.width > 0 /\ finalTongues[k].bbox.height > 0

\* C4 witness: the input held a contour on one row and a contour on one
\* column, and the classifier accepted other contours.
C4_Witness ==
    /\ phase = "done"
    /\ \E k \in 1 .. Len(contours) : getBoundingBox(contours[k]).height = 0
    /\ \E k \in 1 .. Len(contours) : getBoundingBox(contours[k]).width = 0
    /\ Len(classified) >= 1

\* the candidate is a placeholder of createFallbackTongueDetection
IsFallback(t) == "isFallback" \in DOMAIN t /\ t.isFallback

BackendCallDone == phase = "done" /\ path = "backend"

\* C12: the Fallback Generator returns, for any width, height and
\* expectedCount >= 1, exactly expectedCount candidates, each with
\* isFallback = true, confidence 0.1 and a 40x60 bounding box.
C12_FallbackArrangement ==
    (BackendCallDone /\ backend.outcome = "throws") =>
        /\ Len(tongueShapes) = expectedCount
        /\ \A k \in 1 .. Len(tongueShapes) :
               /\ IsFallback(tongueShapes[k])
               /\ tongueShapes[k].confidence = 10
               /\ tongueShapes[k].width = 40
               /\ tongueShapes[k].height = 60

\* C12 witness: the fallback was generated for 11 tongues on the large image
C12_Witness ==
    /\ BackendCallDone
    /\ backend.outcome = "throws"
    /\ expectedCount = 11
    /\ imageWidth = BaseSize.width * 5
    /\ Len(tongueShapes) = 11
    /\ IsFallback(tongueShapes[11])

\* C13: when the detection backend throws an exception, the caller of
\* detectDrumTongues receives the fallback arrangement (and no exception).
C13_BackendExceptionGivesFallback ==
    (BackendCallDone /\ backend.outcome \in {"cvError", "throws"}) =>
        /\ Len(tongueShapes) = expectedCount
        /\ \A k \in 1 .. Len(tongueShapes) : IsFallback(tongueShapes[k])

\* C14: the Fallback Generator is invoked only if the backend threw or
\* returned an empty candidate set, never after a call that returned at
\* least one candidate.
C14_FallbackOnlyAfterFailure ==
    BackendCallDone =>
        /\ (\E k \in 1 .. Len(tongueShapes) : IsFallback(tongueShapes[k]))
               => \/ backend.outcome \in {"cvError", "throws"}
                  \/ detectTongueWithOpenCV(backend).value = <<>>
        /\ (~detectTongueWithOpenCV(backend).threw
               /\ Len(detectTongueWithOpenCV(backend).value) >= 1)
               => \A k \in 1 .. Len(tongueShapes) : ~IsFallback(tongueShapes[k])

\* C14 witness: the fallback was invoked after a backend call that had
\* computed one candidate and then threw in its clean-up
C14_Witness ==
    /\ BackendCallDone
    /\ backend.outcome = "throws"
    /\ Len(backend.results) = 1
    /\ \E k \in 1 .. Len(tongueShapes) : IsFallback(tongueShapes[k])


(***************************************************************************)
(* Properties of the pixel stages (checked under SpecStages, the           *)
(* rectangle scenario under SpecScenario).                                 *)
(***************************************************************************)
\* the buffer is as long as width * height * 4 and both sides are positive
ShapeValid ==
    /\ image.width > 0
    /\ image.height > 0
    /\ image.length = image.width * image.height * 4

\* number of elements of a typed array
Length(arr) == Cardinality(DOMAIN arr)

\* C15: when the buffer length differs from width * height * 4, or the
\* width or the height is not positive, the detection raises
\* InputShapeError and no stage runs: nothing is computed or returned.
C15_InvalidShapeRaises ==
    (path = "stages" /\ ~ShapeValid /\ phase # "pixels") =>
        /\ phase = "failed"
        /\ raised = "InputShapeError"
        /\ lum = <<>>
        /\ contours = <<>>

\* the candidates are those of a 100x100 image with the 20x10 rectangle
ScenarioDone == path = "stages" /\ phase = "done"

\* every pixel of the rectangle is at least 3 pixels away from the border
RectInside ==
    \A i \in image.bright :
        /\ i % image.width >= 3
        /\ i % image.width <= image.width - 4
        /\ i \div image.width >= 3
        /\ i \div image.width <= image.height - 4

\* C16 as stated: the scenario yields exactly one non-fallback candidate
\* and its confidence is at least 0.8.
C16_OneCandidateHighConfidence ==
    ScenarioDone =>
        /\ Len(finalTongues) = 1
        /\ ~IsFallback(finalTongues[1])
        /\ finalTongues[1].confidence >= 80

\* C16 amended: the scenario yields exactly one non-fallback candidate with
\* confidence at least 0.5; when the rectangle is at least 3 pixels inside
\* the image the traced edge ring is 23 wide and 13 high (aspect ratio
\* below 2) and the confidence is 0.5.
C16_OneCandidate ==
    ScenarioDone =>
        /\ Len(finalTongues) = 1
        /\ ~IsFallback(finalTongues[1])
        /\ finalTongues[1].confidence >= 50
        /\ RectInside =>
              /\ finalTongues[1].bbox.width = 23
              /\ finalTongues[1].bbox.height = 13
              /\ finalTongues[1].confidence = 50

\* C16 witness: the rectangle at (40, 45) went through all stages and gave
\* one candidate of confidence 0.5
C16_Witness ==
    /\ ScenarioDone
    /\ RectInside
    /\ 45 * image.width + 40 \in image.bright
    /\ Len(contours) = 1
    /\ Len(finalTongues) = 1
    /\ finalTongues[1].confidence = 50

\* C17: for an all-black image of any size, grayscale and then blur give a
\* luminance map of length width * height whose values are all 0.
C17_BlackStaysBlack ==
    (path = "stages" /\ phase = "blurred" /\ ShapeValid /\ image.bright = {}) =>
        /\ Length(lum) = image.width * image.height
        /\ \A i \in DOMAIN lum : lum[i] = 0

\* C17 witness: a black 4x4 image, whose interior the blur loops reach
C17_Witness ==
    /\ path = "stages"
    /\ phase = "blurred"
    /\ ShapeValid
    /\ image.bright = {}
    /\ image.width = 4
    /\ image.height = 4
    /\ Length(lum) = 16

\* findContours has returned
ContoursFound == path = "stages" /\ phase \in {"contours", "done"}

\* linear index of a point
PointIndex(p) == p.y * imageWidth + p.x

RECURSIVE Flatten(_)
Flatten(list) ==
    IF list = <<>> THEN <<>> ELSE Head(list) \o Flatten(Tail(list))

\* the points of all the contours traced, kept or not, in tracing order
TracedPoints == Flatten(contours \o dropped)

\* the pixels of the image whose edge value is above the threshold
EdgePixels ==
    {i \in 0 .. imageWidth * imageHeight - 1 :
        i \in DOMAIN lum /\ lum[i] > threshold}

\* pixels i and j touch, diagonals included
Adjacent(i, j) ==
    LET dx == (i % imageWidth) - (j % imageWidth)
        dy == (i \div imageWidth) - (j \div imageWidth)
    IN  i # j /\ dx \in -1 .. 1 /\ dy \in -1 .. 1

\* the 8-connected component of the edge pixels that holds the set S
RECURSIVE Component(_)
Component(S) ==
    LET T == S \cup {j \in EdgePixels : \E i \in S : Adjacent(i, j)}
    IN  IF T = S THEN S ELSE Component(T)

Components == {Component({i}) : i \in EdgePixels}

PixelSet(c) == {PointIndex(c[k]) : k \in 1 .. Len(c)}

\* C18: within one findContours call no pixel is traced twice: it belongs
\* to at most one contour, occurs at most once in it, and a pixel of a
\* discarded contour is in no other contour.
C18_NoPixelTracedTwice ==
    ContoursFound =>
        \A j, k \in 1 .. Len(TracedPoints) :
            TracedPoints[j] = TracedPoints[k] => j = k

\* C18 witness: a contour was discarded before another one was kept
C18_Witness ==
    /\ ContoursFound
    /\ Len(contours) >= 1
    /\ \E d \in 1 .. Len(dropped) :
           /\ dropped[d] # <<>>
           /\ PointIndex(dropped[d][1]) < PointIndex(contours[1][1])

C20_PointsInsideImage ==
    ContoursFound =>
        /\ \A k \in 1 .. Len(TracedPoints) :
               /\ TracedPoints[k].x >= 0
               /\ TracedPoints[k].x < imageWidth
               /\ TracedPoints[k].y >= 0
               /\ TracedPoints[k].y < imageHeight
               /\ PointIndex(TracedPoints[k]) \in DOMAIN lum
               /\ lum[PointIndex(TracedPoints[k])] > threshold
        /\ \A i \in DOMAIN visited :
               visited[i] <=> \E k \in 1 .. Len(TracedPoints) :
                                  PointIndex(TracedPoints[k]) = i

\* C20 witness: pixel (0, 1) was traced; its neighbour (-1, 1) has the
\* linear index of pixel (width - 1, 0), which is an edge pixel of another
\* contour
C20_Witness ==
    /\ ContoursFound
    /\ imageWidth >= 3
    /\ \E d \in 1 .. Len(dropped) :
           /\ \E k \in 1 .. Len(dropped[d]) : dropped[d][k] = Pt(0, 1)
           /\ \A k \in 1 .. Len(dropped[d]) : dropped[d][k] # Pt(imageWidth - 1, 0)
    /\ (imageWidth - 1) \in EdgePixels
    /\ IsVisited(visited, imageWidth - 1)

\* C21: every traceContour call and the findContours scan terminate: each
\* pixel is marked visited at most once, and a call pushes 8 points per
\* pixel it marks plus the start point, at most 8 * width * height + 1.
C21_TraceTerminates ==
    ContoursFound =>
        /\ \A k \in 1 .. Len(traces) :
               /\ traces[k].finished
               /\ traces[k].pushes = 8 * traces[k].points + 1
               /\ traces[k].pushes <= 8 * imageWidth * imageHeight + 1
        /\ Len(traces) = Len(contours) + Len(dropped)
        /\ Len(TracedPoints) = Cardinality({i \in DOMAIN visited : visited[i]})
        /\ \A j, k \in 1 .. Len(TracedPoints) :
               PointIndex(TracedPoints[j]) = PointIndex(TracedPoints[k]) => j = k

\* C21 witness: findContours returned after two flood fills, one of them
\* over a component of 12 pixels (97 pushes)
C21_Witness ==
    /\ ContoursFound
    /\ Len(traces) = 2
    /\ \E k \in 1 .. Len(traces) :
           traces[k].points = 12 /\ traces[k].pushes = 97 /\ traces[k].finished

\* the six rejection conditions as stated, over the exact products: the
\* bounding-box area is an integer, and an area above 20000 is never below
\* 0.00014 * W * H for an image of the model (the guard keeps the product
\* within the integers of the model checker)
TooSmall(area, imgW, imgH) ==
    area <= 20000 /\ 100000 * area < 14 * imgW * imgH

StatedRejection(bbox, imgW, imgH) ==
    LET area == bbox.width * bbox.height
    IN  \/ TooSmall(area, imgW, imgH)
        \/ 100 * area > 25 * imgW * imgH
        \/ (bbox.height > 0 /\ 100 * bbox.width < 75 * bbox.height)
        \/ (bbox.height > 0 /\ bbox.width > 8 * bbox.height)
        \/ (bbox.height = 0 /\ bbox.width > 0)
        \/ 100 * bbox.width < imgW
        \/ 100 * bbox.height < imgH

PipelineDone == phase = "done" /\ path = "pipeline"

\* the candidates the classifier emitted for contour k (1-based)
EmittedFor(k) == {j \in 1 .. Len(classified) : classified[j].index = k - 1}

\* C22: the classifier emits a candidate for a contour if and only if none
\* of the rejection conditions holds for its bounding box: area below
\* 0.00014*W*H, area above 0.25*W*H, aspect ratio below 0.75, aspect ratio
\* above 8.0, width below 0.01*W, height below 0.01*H; and it emits at most
\* one candidate per contour, carrying that contour's bounding box.
C22_EmitsIffNotRejected ==
    PipelineDone =>
        \A k \in 1 .. Len(contours) :
            LET bbox == getBoundingBox(contours[k])
            IN  /\ (EmittedFor(k) # {}) <=>
                       ~StatedRejection(bbox, imageWidth, imageHeight)
                /\ Cardinality(EmittedFor(k)) <= 1
                /\ \A j \in EmittedFor(k) : classified[j].bbox = bbox

\* C22 witness: one call in which a contour was rejected for its aspect
\* ratio alone, another for its area alone, and others were emitted.
C22_Witness ==
    /\ PipelineDone
    /\ \E k \in 1 .. Len(contours) :
           LET bbox == getBoundingBox(contours[k])
           IN  /\ EmittedFor(k) = {}
               /\ bbox.width * bbox.height = 48
               /\ bbox.width = 4
    /\ \E k \in 1 .. Len(contours) :
           LET bbox == getBoundingBox(contours[k])
           IN  /\ EmittedFor(k) = {}
               /\ 4 * bbox.width * bbox.height > imageWidth * imageHeight
    /\ Len(classified) >= 2

\* the stated boosts in hundredths, for a box of positive height
AspectBoost(bbox) ==
    IF 2 * bbox.height <= bbox.width /\ bbox.width <= 4 * bbox.height
    THEN 30 ELSE 0

AreaBoost(area) == IF 1000 < area /\ area < 50000 THEN 20 ELSE 0

\* C23: the confidence of every classified candidate is
\* min(1.0, 0.5 + (0.3 if 2.0 <= aspectRatio <= 4.0) + (0.2 if
\* 1000 < area < 50000)) and lies in [0, 1] (held in hundredths).
C23_ConfidenceFormula ==
    \A k \in 1 .. Len(classified) :
        LET t == classified[k]
            sum == 50 + AspectBoost(t.bbox) + AreaBoost(t.bbox.width * t.bbox.height)
        IN  /\ t.confidence = IF sum < 100 THEN sum ELSE 100
            /\ t.confidence >= 0
            /\ t.confidence <= 100

\* C23 witness: one call classified candidates with all four sums, among
\* them one of area exactly 1000 that got the aspect boost only.
C23_Witness ==
    /\ PipelineDone
    /\ \A c \in {50, 70, 80, 100} :
           \E k \in 1 .. Len(classified) : classified[k].confidence = c
    /\ \E k \in 1 .. Len(classified) :
           /\ classified[k].area = 1000
           /\ classified[k].confidence = 80

\* the accepted candidates in the order removeOverlappingTongues gets them
SortedAccepted == SortByConfidence(classified)

\* for each position of the sorted list, the position in finalTongues of
\* the same candidate (named by its contour index), or 0
FinalPositions(sorted) ==
    [k \in 1 .. Len(sorted) |->
        IF \E j \in 1 .. Len(finalTongues) : finalTongues[j].index = sorted[k].index
        THEN CHOOSE j \in 1 .. Len(finalTongues) :
                 finalTongues[j].index = sorted[k].index
        ELSE 0]

\* the positions of the sorted list whose fate the returned list shows:
\* all of them when the list is below the truncation limit, otherwise
\* those up to the last returned candidate
Decided(pos) ==
    IF 2 * (Len(finalTongues) + 1) <= TwiceLimit
    THEN DOMAIN pos
    ELSE {k \in DOMAIN pos :
              \E j \in DOMAIN pos : j >= k /\ pos[j] = Len(finalTongues)}

OverlapsMoreThan30(b1, b2) ==
    10 * IntersectionArea(b1, b2) > 3 * SmallerArea(b1, b2)

\* C24: removeOverlappingTongues keeps a candidate exactly when its
\* overlap ratio with every previously kept candidate is at most 0.30: the
\* first candidate is always kept, the kept ones stay in order, and every
\* dropped candidate overlaps by more than 0.30 a kept one preceding it.
C24_GreedySuppression ==
    PipelineDone =>
        LET sorted == SortedAccepted
            pos == FinalPositions(sorted)
        IN  /\ \A k \in Decided(pos) :
                   (pos[k] # 0) <=>
                       \A j \in 1 .. (k - 1) :
                           pos[j] # 0 =>
                               ~OverlapsMoreThan30(sorted[k].bbox, sorted[j].bbox)
            /\ Len(sorted) >= 1 =>
                   /\ Len(finalTongues) >= 1
                   /\ finalTongues[1] = sorted[1]
            /\ \A j, k \in DOMAIN pos :
                   (j < k /\ pos[j] # 0 /\ pos[k] # 0) => pos[j] < pos[k]
            /\ \A j \in 1 .. Len(finalTongues) :
                   \E k \in DOMAIN pos : pos[k] = j /\ sorted[k] = finalTongues[j]

\* C24 witness: below the truncation limit a candidate was dropped that
\* clears the first kept candidate but overlaps a later kept one, and a
\* candidate was kept that overlaps a kept one by exactly 0.30.
C24_Witness ==
    /\ PipelineDone
    /\ 2 * (Len(finalTongues) + 1) <= TwiceLimit
    /\ LET sorted == SortedAccepted
           pos == FinalPositions(sorted)
       IN  \E k \in 3 .. Len(sorted) :
               /\ pos[k] = 0
               /\ ~OverlapsMoreThan30(sorted[k].bbox, sorted[1].bbox)
    /\ \E j, k \in 1 .. Len(finalTongues) :
           /\ j < k
           /\ 10 * IntersectionArea(finalTongues[j].bbox, finalTongues[k].bbox)
                  = 3 * SmallerArea(finalTongues[j].bbox, finalTongues[k].bbox)

\* candidate c is returned
Kept(c) == \E j \in 1 .. Len(finalTongues) : finalTongues[j].index = c.index

\* the pairs (earlier, later) of accepted candidates, in discovery order,
\* that have equal confidence and overlap by more than 0.30
TiedOverlappingPairs ==
    {p \in (1 .. Len(classified)) \X (1 .. Len(classified)) :
        /\ p[1] < p[2]
        /\ classified[p[1]].confidence = classified[p[2]].confidence
        /\ OverlapsMoreThan30(classified[p[1]].bbox, classified[p[2]].bbox)}

BelowLimit == 2 * (Len(finalTongues) + 1) <= TwiceLimit

\* c precedes d in the sorted order: higher confidence, or equal
\* confidence and discovered earlier
SortsBefore(c, d) ==
    \/ c.confidence > d.confidence
    \/ c.confidence = d.confidence /\ c.index < d.index

\* C25 as stated: of two equal-confidence candidates that overlap, the
\* earlier-discovered one is the one kept (and the later one is dropped),
\* when the output is not truncated.
C25_EarlierIsTheOneKept ==
    (PipelineDone /\ BelowLimit) =>
        \A p \in TiedOverlappingPairs :
            Kept(classified[p[1]]) /\ ~Kept(classified[p[2]])

\* C25, amended: candidates of equal confidence keep their discovery order
\* through the sort and in the output; of two equal-confidence candidates
\* that overlap by more than 0.30 the later-discovered one is never kept
\* beside the earlier one, and the earlier one is dropped only for
\* overlapping by more than 0.30 a kept candidate that sorts before it.
C25_StableTieBreak ==
    PipelineDone =>
        /\ \A j, k \in 1 .. Len(finalTongues) :
               (j < k /\ finalTongues[j].confidence = finalTongues[k].confidence)
                   => finalTongues[j].index < finalTongues[k].index
        /\ \A p \in TiedOverlappingPairs :
               /\ ~(Kept(classified[p[1]]) /\ Kept(classified[p[2]]))
               /\ (BelowLimit /\ ~Kept(classified[p[1]])) =>
                      \E j \in 1 .. Len(finalTongues) :
                          /\ SortsBefore(finalTongues[j], classified[p[1]])
                          /\ OverlapsMoreThan30(finalTongues[j].bbox,
                                                classified[p[1]].bbox)

\* C25 witness: an untruncated output in which, of one tied overlapping
\* pair, the earlier candidate was kept and the later dropped, and of
\* another the earlier was dropped and the later kept; and two kept
\* candidates of equal confidence.
C25_Witness ==
    /\ PipelineDone
    /\ BelowLimit
    /\ \E p \in TiedOverlappingPairs :
           Kept(classified[p[1]]) /\ ~Kept(classified[p[2]])
    /\ \E p \in TiedOverlappingPairs :
           ~Kept(classified[p[1]]) /\ Kept(classified[p[2]])
    /\ \E j, k \in 1 .. Len(finalTongues) :
           j < k /\ finalTongues[j].confidence = finalTongues[k].confidence

\* a step that is a call of applyGaussianBlur or applySobelEdgeDetection
SmoothOrEdgeStep ==
    \/ phase = "gray" /\ phase' = "blurred"
    \/ phase = "blurred" /\ phase' = "edges"

\* index i names a pixel (x, y) of the width x height grid
PixelX(i) == i % imageWidth
PixelY(i) == i \div imageWidth

OnBorder(i) ==
    /\ imageWidth >= 1
    /\ imageHeight >= 1
    /\ i < imageWidth * imageHeight
    /\ \/ PixelX(i) = 0
       \/ PixelX(i) = imageWidth - 1
       \/ PixelY(i) = 0
       \/ PixelY(i) = imageHeight - 1

InsideBorder(i) ==
    /\ imageWidth >= 1
    /\ 1 <= PixelX(i)
    /\ PixelX(i) < imageWidth - 1
    /\ 1 <= PixelY(i)
    /\ PixelY(i) < imageHeight - 1

\* C26: applyGaussianBlur and applySobelEdgeDetection each return a map
\* of the same length as their input, in which every border pixel (x = 0,
\* x = width-1, y = 0 or y = height-1) is 0 and every value lies in
\* [0, 255]; only interior pixels (1 <= x < width-1, 1 <= y < height-1)
\* are written, the others keep the initial 0.
C26_BordersZero ==
    [][SmoothOrEdgeStep =>
          /\ DOMAIN lum' = DOMAIN lum
          /\ \A i \in DOMAIN lum' :
                 /\ lum'[i] \in 0 .. 255
                 /\ OnBorder(i) => lum'[i] = 0
                 /\ lum'[i] # 0 => InsideBorder(i)]_vars

\* C26 witness: an edge map of a 4x4 image whose four interior pixels are
\* clamped to 255.
C26_Witness ==
    /\ path = "stages"
    /\ phase = "edges"
    /\ imageWidth = 4
    /\ imageHeight = 4
    /\ DOMAIN lum = 0 .. 15
    /\ \A i \in {5, 6, 9, 10} : lum[i] = 255
    /\ \A i \in (0 .. 15) \ {5, 6, 9, 10} : lum[i] = 0

(***************************************************************************)
(* Properties of the page-driven selection (checked under SpecPage).       *)
(***************************************************************************)
\* C27: after any clicks on the overlays of a detection run and any clear
\* operations, an overlay of the run carries the 'selected' mark if and
\* only if its index is in selectedTongues, and a click on such an overlay
\* toggles the membership of its index in selectedTongues.
C27_MarkIffSelected ==
    /\ \A k \in 1 .. Len(detectionOverlays) :
           detectionOverlays[k].selected <=> Includes(selectedTongues, k - 1)
    /\ lastOp.op = "click" =>
           (Includes(selectedTongues, lastOp.index)
                <=> ~Includes(prevSelected, lastOp.index))

\* C27 witness: a click took index 0 out of a selection of both overlays.
C27_Witness ==
    /\ lastOp = Op("click", 0)
    /\ prevSelected = <<0, 1>>
    /\ selectedTongues = <<1>>
    /\ Len(detectionOverlays) = 2
    /\ ~detectionOverlays[1].selected
    /\ detectionOverlays[2].selected

\* C28: after any uploads, runs, clicks and clears, every index in
\* selectedTongues is a valid index of detectedTongues and has an entry in
\* detectionOverlays.
C28_SelectedIndicesValid ==
    \A k \in 1 .. Len(selectedTongues) :
        /\ selectedTongues[k] >= 0
        /\ selectedTongues[k] < Len(detectedTongues)
        /\ HasOverlay(detectionOverlays, selectedTongues[k])

\* the call of detectDrumTongues handed the backend's return value (its
\* candidates, or [] when it was not ready or caught its own error) to
\* convertOpenCVResultsToTongueShapes and returned the result
Converted ==
    BackendCallDone /\ backend.outcome \in {"results", "cvError", "notReady"}

\* C29: convertOpenCVResultsToTongueShapes never returns more than
\* expectedCount candidates, and whenever the backend supplied more than
\* expectedCount candidates every returned candidate has confidence >= 0.5
\* (50 hundredths) and was among the supplied ones.
C29_ConvertedAtMostExpected ==
    Converted =>
        /\ Len(tongueShapes) <= expectedCount
        /\ \A k \in 1 .. Len(tongueShapes) :
               \E j \in 1 .. Len(backend.results) :
                   backend.results[j] = tongueShapes[k]
        /\ Len(backend.results) > expectedCount =>
               \A k \in 1 .. Len(tongueShapes) : tongueShapes[k].confidence >= 50

\* C29 witness: the backend supplied three candidates for an expected
\* count of 1, two of them below 0.5 and the last at least 0.5, and that
\* one was returned.
C29_Witness ==
    /\ Converted
    /\ expectedCount = 1
    /\ Len(backend.results) = 3
    /\ backend.results[1].confidence < 50
    /\ backend.results[2].confidence < 50
    /\ backend.results[3].confidence >= 50
    /\ tongueShapes = <<backend.results[3]>>

(***************************************************************************)
(* Properties of listening (checked under SpecListen).                     *)
(***************************************************************************)
\* the managers that were created and neither failed nor were stopped
ActiveManagers ==
    {k \in 1 .. Len(managers) : managers[k] \in {"created", "listening"}}

\* C30: under any interleaving of startListening and stopListening calls
\* at most one AudioManager is created and active at a time, isListening
\* implies that audioManager is not null, and a failed start leaves
\* isListening = false and audioManager = null.
C30_OneManagerConsistent ==
    /\ Cardinality(ActiveManagers) <= 1
    /\ isListening => audioManager # 0
    /\ lastCall = "startFailed" => (~isListening /\ audioManager = 0)

=============================================================================
